---- MODULE Spec2Model ----
(***************************************************************************)
(* A model of hdate/zmanim.py: the Zmanim snapshot (construction, the two  *)
(* solar solvers, the derivation of the named zmanim and the candle        *)
(* lighting / havdalah / issur melacha day-transition properties).         *)
(*                                                                         *)
(* Representation.                                                         *)
(*  - A date is a day number (its weekday is d % 7, 6 being Saturday).     *)
(*  - A datetime is a record [date, hour, minute, second, aware, utcoffset];*)
(*    utcoffset is in seconds and is 0 on a naive datetime.                *)
(*  - Floats are kept exact as scaled integers: the trigonometric inputs   *)
(*    of the low accuracy solver (longitude, eqtime, hour angle) are in    *)
(*    tenths (of a degree, of a minute); the values of the dictionary of   *)
(*    get_utc_sun_time_full are in seconds (sixtieths of the minutes the   *)
(*    code returns), so 1.25 * sun_hour, sun_hour * 1.2, ... are integers. *)
(*  - The Fourier series for eqtime/decl and math.acos are not computable  *)
(*    here: the variable sky holds their results for the modelled days     *)
(*    (eqtime, and per altitude either the hour angle in [0, 720] minutes  *)
(*    or the ValueError of math.acos), together with what the astral       *)
(*    library answers.                                                     *)
(***************************************************************************)
EXTENDS Integers, Sequences, FiniteSets, TLC

VARIABLES
    now,            \* dt.datetime.now(): the system clock, a naive datetime
    DEFAULT_DATE,   \* the default of __init__'s date parameter (evaluated once)
    _USE_ASTRAL,    \* module flag: the astral import succeeded
    calendar,       \* the HDate collaborator: day -> [is_shabbat, is_yom_tov]
    sky,            \* solar geometry of the modelled days (see above)
    instances,      \* the Zmanim objects constructed so far
    history         \* one record per call of Zmanim(...)

vars == <<now, DEFAULT_DATE, _USE_ASTRAL, calendar, sky, instances, history>>

----------------------------------------------------------------------------
(* Program constants *)

MAX_LATITUDE_ASTRAL == 50
DEGENERATE == -720
NOON == 720
MINUTES_PER_DEGREE == 4
DEG_SUNRISE == 90833
DEG_FIRST_LIGHT == 106100
DEG_TALIT == 101000
DEG_FIRST_STARS == 96000
DEG_THREE_STARS == 98500
DEFAULT_CANDLE_LIGHTING_OFFSET == 18
DEFAULT_HAVDALAH_OFFSET == 0

Degrees == {DEG_SUNRISE, DEG_FIRST_LIGHT, DEG_TALIT, DEG_FIRST_STARS, DEG_THREE_STARS}

----------------------------------------------------------------------------
(* datetime *)

Abs(x) == IF x < 0 THEN -x ELSE x

\* Python's int(): truncation toward zero of n / d (d > 0).
IntTrunc(n, d) == IF n >= 0 THEN n \div d ELSE -((-n) \div d)

Date(d) == [date |-> d, hour |-> 0, minute |-> 0, second |-> 0,
            aware |-> FALSE, utcoffset |-> 0]

DateTime(d, h, m, s) == [date |-> d, hour |-> h, minute |-> m, second |-> s,
                         aware |-> FALSE, utcoffset |-> 0]

\* Seconds from day 0, 00:00 UTC (for a naive datetime: of its wall clock).
Epoch(t) == ((t.date * 24 + t.hour) * 60 + t.minute) * 60 + t.second - t.utcoffset

\* The aware datetime of instant s (epoch seconds) in the zone of offset off.
FromEpoch(s, off) ==
    LET w == s + off
        r == w % 86400
    IN  [date |-> w \div 86400, hour |-> r \div 3600, minute |-> (r % 3600) \div 60,
         second |-> r % 60, aware |-> TRUE, utcoffset |-> off]

\* datetime.replace(tzinfo=None): the wall clock fields are kept.
ReplaceTzNone(t) == [t EXCEPT !.aware = FALSE, !.utcoffset = 0]

\* datetime.replace(tzinfo=tz): the wall clock fields are kept.
ReplaceTz(t, off) == [t EXCEPT !.aware = TRUE, !.utcoffset = off]

\* datetime.astimezone(tz) of an aware datetime: the instant is kept.
AsTimezone(t, off) == FromEpoch(Epoch(t), off)

\* datetime + timedelta of the given seconds.
PlusSeconds(t, s) == FromEpoch(Epoch(t) + s, t.utcoffset)

\* Optional[datetime]
NoDateTime == [none |-> TRUE, value |-> Date(0)]
Some(t) == [none |-> FALSE, value |-> t]

----------------------------------------------------------------------------
(* External collaborators *)

\* HDate(gdate, diaspora): the calendar engine, consumed as the two flags
\* is_shabbat and is_yom_tov of a date.
HDate(gdate, diaspora) == calendar[gdate]

\* What the astral library answers for the marker `key` of day `date`
\* (astral.sun.sun(observer, date)[key], astral.sun.time_of_transit(...)):
\* an aware UTC datetime.
AstralTime(date, key) ==
    LET a == sky.astral[key]
    IN  [date |-> date + a.day, hour |-> a.hour, minute |-> a.minute,
         second |-> a.second, aware |-> TRUE, utcoffset |-> 0]

----------------------------------------------------------------------------
(* Zmanim.__init__ *)

NoAstralSun == [sunrise |-> Date(0), sunset |-> Date(0)]

\* The object before __init__ has assigned anything.
Blank ==
    [location |-> [latitude |-> 0, longitude |-> 0, timezone |-> 0, diaspora |-> FALSE],
     language |-> "", candle_lighting_offset |-> 0, havdalah_offset |-> 0,
     has_config |-> FALSE,
     has_date |-> FALSE, date |-> 0,
     has_time |-> FALSE, time |-> Date(0),
     has_astral |-> FALSE, astral_sun |-> NoAstralSun]

\* Lines 88-92: the astral observer and sun data are created when the
\* library is there and the latitude is in its range.
SelectSolver(self) ==
    IF _USE_ASTRAL /\ Abs(self.location.latitude) <= MAX_LATITUDE_ASTRAL
    THEN [self EXCEPT !.has_astral = TRUE,
                      !.astral_sun = [sunrise |-> AstralTime(self.date, "sunrise"),
                                      sunset |-> AstralTime(self.date, "sunset")]]
    ELSE self

\* Lines 83-86: the wall clock fields are read in the location's zone and
\* the result is converted to UTC.
NormalizeTime(self) ==
    [self EXCEPT !.time = AsTimezone(ReplaceTz(self.time, self.location.timezone), 0)]

\* An aware datetime converted to UTC before its tzinfo is dropped (a mutant
\* of StripTz).
StripTzAsUTC(t) == IF t.aware THEN ReplaceTzNone(AsTimezone(t, 0)) ELSE t

\* Line 75: date.replace(tzinfo=None).
StripTz(t) == ReplaceTzNone(t)

\* __init__ that takes any other value for a date (a mutant of
\* Zmanim__init__).
Zmanim__init__lenient(date, location, language, candle_lighting_offset, havdalah_offset) ==
    LET s0 == [Blank EXCEPT !.location = location, !.language = language,
                            !.candle_lighting_offset = candle_lighting_offset,
                            !.havdalah_offset = havdalah_offset,
                            !.has_config = TRUE]
    IN  [raised |-> "none",
         self |-> SelectSolver(NormalizeTime(
                     [s0 EXCEPT !.has_date = TRUE, !.date = date.value.date,
                                !.has_time = TRUE,
                                !.time = IF date.type = "datetime"
                                         THEN StripTz(date.value) ELSE now]))]

\* __init__(self, date, location, language, candle_lighting_offset,
\* havdalah_offset): date is a value [type, value], type being the Python
\* type of the argument. The result is [raised, self].
Zmanim__init__(date, location, language, candle_lighting_offset, havdalah_offset) ==
    LET s0 == [Blank EXCEPT !.location = location, !.language = language,
                            !.candle_lighting_offset = candle_lighting_offset,
                            !.havdalah_offset = havdalah_offset,
                            !.has_config = TRUE]
    IN  IF date.type = "datetime"
        THEN [raised |-> "none",
              self |-> SelectSolver(NormalizeTime(
                          [s0 EXCEPT !.has_date = TRUE, !.date = date.value.date,
                                     !.has_time = TRUE,
                                     !.time = StripTz(date.value)]))]
        ELSE IF date.type = "date"
        THEN [raised |-> "none",
              self |-> SelectSolver(NormalizeTime(
                          [s0 EXCEPT !.has_date = TRUE, !.date = date.value.date,
                                     !.has_time = TRUE, !.time = now]))]
        ELSE [raised |-> "TypeError", self |-> s0]

----------------------------------------------------------------------------
(* The solvers *)

\* _get_utc_sun_time_deg(self, deg): <<rising, setting>> in minutes from
\* 00:00 UTC. sky.acos[deg] is 720/pi * math.acos(...) in tenths of a minute,
\* or the ValueError math.acos raises outside [-1, 1].
_get_utc_sun_time_deg(self, deg) ==
    LET hour_angle == sky.acos[deg]
        longitude == self.location.longitude
        eqtime == sky.eqtime
    IN  IF ~hour_angle.ok
        THEN <<DEGENERATE, DEGENERATE>>
        ELSE <<IntTrunc(NOON * 10 - MINUTES_PER_DEGREE * longitude - hour_angle.value - eqtime, 10),
               IntTrunc(NOON * 10 - MINUTES_PER_DEGREE * longitude + hour_angle.value - eqtime, 10)>>

\* _datetime_to_minutes_offest(self, time)
_datetime_to_minutes_offest(self, time) ==
    time.hour * 60 + time.minute + (IF time.second >= 30 THEN 1 ELSE 0)
        + ((time.date - self.date) * 86400) \div 60

\* _get_utc_time_of_transit(self, zenith, rising): key names the marker the
\* pair (zenith, rising) stands for.
_get_utc_time_of_transit(self, key) ==
    _datetime_to_minutes_offest(self, AstralTime(self.date, key))

\* sun_hour rounded to the nearest minute (a mutant of SunHour).
SunHourRounded(sunrise, sunset) == (sunset - sunrise + 6) \div 12

\* Line 368: sun_hour, with Python's floor division.
SunHour(sunrise, sunset) == (sunset - sunrise) \div 12

\* midday rounded up (a mutant of Midday).
MiddayRoundedUp(sunrise, sunset) == (sunset + sunrise + 1) \div 2

\* Line 369: midday, with Python's floor division.
Midday(sunrise, sunset) == (sunset + sunrise) \div 2

\* The dictionary with midnight 12 minutes, not 12 hours, after midday (a
\* mutant of DeriveZmanim).
DeriveZmanimShortNight(sunrise, sunset, first_light, talit, first_stars, three_stars) ==
    LET sun_hour == SunHour(sunrise, sunset)
        midday == Midday(sunrise, sunset)
        mga_sunhour_x6 == midday - first_light
    IN  [sunrise |-> 60 * sunrise,
         sunset |-> 60 * sunset,
         sun_hour |-> 60 * sun_hour,
         midday |-> 60 * midday,
         first_light |-> 60 * first_light,
         talit |-> 60 * talit,
         first_stars |-> 60 * first_stars,
         three_stars |-> 60 * three_stars,
         plag_mincha |-> 60 * sunset - 75 * sun_hour,
         stars_out |-> 60 * sunset + 18 * sun_hour,
         small_mincha |-> 60 * sunrise + 570 * sun_hour,
         big_mincha |-> 60 * sunrise + 390 * sun_hour,
         big_mincha_30 |-> 60 * (midday + 30),
         mga_end_shma |-> 60 * first_light + 30 * mga_sunhour_x6,
         gra_end_shma |-> 60 * sunrise + 180 * sun_hour,
         mga_end_tfila |-> 60 * first_light + 40 * mga_sunhour_x6,
         gra_end_tfila |-> 60 * sunrise + 240 * sun_hour,
         rabbeinu_tam |-> 60 * sunset + 72 * sun_hour,
         midnight |-> 60 * (midday + 12)]

\* Lines 367-394: the dictionary, from the six solved markers (minutes).
\* Every value is in seconds.
DeriveZmanim(sunrise, sunset, first_light, talit, first_stars, three_stars) ==
    LET sun_hour == SunHour(sunrise, sunset)
        midday == Midday(sunrise, sunset)
        mga_sunhour_x6 == midday - first_light      \* 6 * mga_sunhour
    IN  [sunrise |-> 60 * sunrise,
         sunset |-> 60 * sunset,
         sun_hour |-> 60 * sun_hour,
         midday |-> 60 * midday,
         first_light |-> 60 * first_light,
         talit |-> 60 * talit,
         first_stars |-> 60 * first_stars,
         three_stars |-> 60 * three_stars,
         plag_mincha |-> 60 * sunset - 75 * sun_hour,
         stars_out |-> 60 * sunset + 18 * sun_hour,
         small_mincha |-> 60 * sunrise + 570 * sun_hour,
         big_mincha |-> 60 * sunrise + 390 * sun_hour,
         big_mincha_30 |-> 60 * (midday + 30),
         mga_end_shma |-> 60 * first_light + 30 * mga_sunhour_x6,
         gra_end_shma |-> 60 * sunrise + 180 * sun_hour,
         mga_end_tfila |-> 60 * first_light + 40 * mga_sunhour_x6,
         gra_end_tfila |-> 60 * sunrise + 240 * sun_hour,
         rabbeinu_tam |-> 60 * sunset + 72 * sun_hour,
         midnight |-> 60 * (midday + 12 * 60)]

\* The branch get_utc_sun_time_full takes (line 353), and whether the
\* precise branch finds self.astral_sun.
SolverBranch(self) ==
    IF (~_USE_ASTRAL) \/ Abs(self.location.latitude) > MAX_LATITUDE_ASTRAL
    THEN "deg"
    ELSE IF self.has_astral THEN "astral" ELSE "AttributeError"

NoZmanim == DeriveZmanim(0, 0, 0, 0, 0, 0)

\* get_utc_sun_time_full(self): [raised, branch, value].
get_utc_sun_time_full(self) ==
    LET branch == SolverBranch(self)
    IN  IF branch = "deg"
        THEN [raised |-> "none", branch |-> branch,
              value |-> DeriveZmanim(_get_utc_sun_time_deg(self, DEG_SUNRISE)[1],
                                     _get_utc_sun_time_deg(self, DEG_SUNRISE)[2],
                                     _get_utc_sun_time_deg(self, DEG_FIRST_LIGHT)[1],
                                     _get_utc_sun_time_deg(self, DEG_TALIT)[1],
                                     _get_utc_sun_time_deg(self, DEG_FIRST_STARS)[2],
                                     _get_utc_sun_time_deg(self, DEG_THREE_STARS)[2])]
        ELSE IF branch = "astral"
        THEN [raised |-> "none", branch |-> branch,
              value |-> DeriveZmanim(_datetime_to_minutes_offest(self, self.astral_sun.sunrise),
                                     _datetime_to_minutes_offest(self, self.astral_sun.sunset),
                                     _get_utc_time_of_transit(self, "first_light"),
                                     _get_utc_time_of_transit(self, "talit"),
                                     _get_utc_time_of_transit(self, "first_stars"),
                                     _get_utc_time_of_transit(self, "three_stars"))]
        ELSE [raised |-> "AttributeError", branch |-> "astral", value |-> NoZmanim]

\* utc_zmanim[key]: the day's UTC midnight plus the value as a timedelta.
utc_zmanim(self, key) ==
    PlusSeconds(ReplaceTz(Date(self.date), 0), get_utc_sun_time_full(self).value[key])

\* zmanim[key]: the same instant in the location's zone.
zmanim(self, key) == AsTimezone(utc_zmanim(self, key), self.location.timezone)

----------------------------------------------------------------------------
(* Candle lighting, havdalah and the day-transition properties *)

IsRestDay(hdate) == hdate.is_shabbat \/ hdate.is_yom_tov

Today(self) == HDate(self.date, self.location.diaspora)

Tomorrow(self) == HDate(self.date + 1, self.location.diaspora)

\* _havdalah_datetime
_havdalah_datetime(self) ==
    IF self.havdalah_offset = 0
    THEN zmanim(self, "three_stars")
    ELSE PlusSeconds(zmanim(self, "sunset"), 60 * self.havdalah_offset)

\* candle_lighting
candle_lighting(self) ==
    LET today == Today(self)
        tomorrow == Tomorrow(self)
    IN  IF (today.is_yom_tov \/ today.is_shabbat) /\ tomorrow.is_yom_tov
        THEN Some(_havdalah_datetime(self))
        ELSE IF tomorrow.is_shabbat \/ tomorrow.is_yom_tov
        THEN Some(PlusSeconds(zmanim(self, "sunset"), -60 * self.candle_lighting_offset))
        ELSE NoDateTime

\* havdalah that forgets the inner check of tomorrow (a mutant of havdalah).
havdalah_any_rest_day(self) ==
    IF Today(self).is_shabbat \/ Today(self).is_yom_tov
    THEN Some(_havdalah_datetime(self))
    ELSE NoDateTime

\* havdalah
havdalah(self) ==
    LET today == Today(self)
        tomorrow == Tomorrow(self)
    IN  IF today.is_shabbat \/ today.is_yom_tov
        THEN IF tomorrow.is_shabbat \/ tomorrow.is_yom_tov
             THEN NoDateTime
             ELSE Some(_havdalah_datetime(self))
        ELSE NoDateTime

\* issur_melacha_in_effect comparing with <= and > (a mutant of
\* issur_melacha_in_effect).
issur_melacha_in_effect_inclusive(self) ==
    LET today == Today(self)
        tomorrow == Tomorrow(self)
    IN  \/ IsRestDay(today) /\ IsRestDay(tomorrow)
        \/ /\ IsRestDay(today)
           /\ ~havdalah(self).none
           /\ Epoch(self.time) <= Epoch(havdalah(self).value)
        \/ /\ IsRestDay(tomorrow)
           /\ ~candle_lighting(self).none
           /\ Epoch(self.time) > Epoch(candle_lighting(self).value)

\* issur_melacha_in_effect
issur_melacha_in_effect(self) ==
    LET today == Today(self)
        tomorrow == Tomorrow(self)
    IN  IF (today.is_shabbat \/ today.is_yom_tov)
           /\ (tomorrow.is_shabbat \/ tomorrow.is_yom_tov)
        THEN TRUE
        ELSE IF (today.is_shabbat \/ today.is_yom_tov)
                /\ ~havdalah(self).none
                /\ Epoch(self.time) < Epoch(havdalah(self).value)
        THEN TRUE
        ELSE IF (tomorrow.is_shabbat \/ tomorrow.is_yom_tov)
                /\ ~candle_lighting(self).none
                /\ Epoch(self.time) >= Epoch(candle_lighting(self).value)
        THEN TRUE
        ELSE FALSE

\* erev_shabbat_chag comparing with <= (a mutant of erev_shabbat_chag).
erev_shabbat_chag_inclusive(self) ==
    /\ ~candle_lighting(self).none
    /\ IsRestDay(Tomorrow(self)) /\ ~IsRestDay(Today(self))
    /\ Epoch(self.time) <= Epoch(candle_lighting(self).value)

\* erev_shabbat_chag that does not look at the time (a mutant of
\* erev_shabbat_chag).
erev_shabbat_chag_all_day(self) ==
    /\ ~candle_lighting(self).none
    /\ IsRestDay(Tomorrow(self)) /\ ~IsRestDay(Today(self))

\* erev_shabbat_chag
erev_shabbat_chag(self) ==
    LET today == Today(self)
        tomorrow == Tomorrow(self)
    IN  IF candle_lighting(self).none
        THEN FALSE
        ELSE IF (tomorrow.is_shabbat \/ tomorrow.is_yom_tov)
                /\ (~today.is_shabbat /\ ~today.is_yom_tov)
                /\ Epoch(self.time) < Epoch(candle_lighting(self).value)
        THEN TRUE
        ELSE FALSE

\* motzei_shabbat_chag comparing with >= (a mutant of motzei_shabbat_chag).
motzei_shabbat_chag_inclusive(self) ==
    /\ ~havdalah(self).none
    /\ ~(IsRestDay(Today(self)) /\ IsRestDay(Tomorrow(self)))
    /\ IsRestDay(Today(self))
    /\ Epoch(self.time) >= Epoch(havdalah(self).value)

\* motzei_shabbat_chag
motzei_shabbat_chag(self) ==
    LET today == Today(self)
        tomorrow == Tomorrow(self)
    IN  IF havdalah(self).none
        THEN FALSE
        ELSE IF (today.is_shabbat \/ today.is_yom_tov)
                /\ (tomorrow.is_shabbat \/ tomorrow.is_yom_tov)
        THEN FALSE
        ELSE IF (today.is_shabbat \/ today.is_yom_tov)
                /\ Epoch(self.time) > Epoch(havdalah(self).value)
        THEN TRUE
        ELSE FALSE

----------------------------------------------------------------------------
(* Bounds and input sets *)

MaxDays == 2            \* snapshots are built for the dates 5 .. 5 + MaxDays
Radius == 3             \* sampled instants: centre - Radius .. centre + Radius
CandleCentre == 1081    \* local minute of day near candle lighting
HavdalahCentre == 1141  \* local minute of day near havdalah
MorningMinute == 540    \* local minute of day of the morning sample
MaxCalls == 2           \* calls of Zmanim(...) in the construction scenario
MaxTicks == 1           \* minutes the clock advances after module load
MaxShortSteps == 12     \* hour angles 0, 0.5, ... minutes (very short days)

\* Day 5 is a Friday, day 6 a Saturday.
Dates == 5 .. (5 + MaxDays)

CalendarDays == 5 .. (5 + MaxDays + 1)

\* Yom Tov falls on any days, never on three days in a row.
Calendars ==
    { [d \in CalendarDays |-> [is_shabbat |-> (d % 7 = 6), is_yom_tov |-> (d \in Y)]] :
        Y \in { Y \in SUBSET CalendarDays : \A d \in Y : ~({d + 1, d + 2} \subseteq Y) } }

PlainCalendar == [d \in CalendarDays |-> [is_shabbat |-> (d % 7 = 6), is_yom_tov |-> FALSE]]

PetahTikva == [latitude |-> 32, longitude |-> 349, timezone |-> 7200, diaspora |-> FALSE]

SampleMinutes ==
    {MorningMinute} \cup ((CandleCentre - Radius) .. (CandleCentre + Radius))
                    \cup ((HavdalahCentre - Radius) .. (HavdalahCentre + Radius))

CandleOffsets == {DEFAULT_CANDLE_LIGHTING_OFFSET, 20}

HavdalahOffsets == {DEFAULT_HAVDALAH_OFFSET, 42}

Solved(h) == [ok |-> TRUE, value |-> h]

ValueError == [ok |-> FALSE, value |-> 0]

\* astral's answers on an ordinary day east of Greenwich (UTC).
AstralDay ==
    [sunrise |-> [day |-> 0, hour |-> 3, minute |-> 1, second |-> 10],
     sunset |-> [day |-> 0, hour |-> 16, minute |-> 20, second |-> 40],
     first_light |-> [day |-> 0, hour |-> 1, minute |-> 39, second |-> 0],
     talit |-> [day |-> 0, hour |-> 2, minute |-> 5, second |-> 29],
     first_stars |-> [day |-> 0, hour |-> 16, minute |-> 45, second |-> 30],
     three_stars |-> [day |-> 0, hour |-> 17, minute |-> 1, second |-> 31]]

\* astral's answers west of Greenwich: the evening markers fall on the next
\* UTC day.
AstralWest ==
    [sunrise |-> [day |-> 0, hour |-> 10, minute |-> 5, second |-> 59],
     sunset |-> [day |-> 0, hour |-> 23, minute |-> 40, second |-> 0],
     first_light |-> [day |-> 0, hour |-> 8, minute |-> 30, second |-> 30],
     talit |-> [day |-> 0, hour |-> 9, minute |-> 0, second |-> 0],
     first_stars |-> [day |-> 1, hour |-> 0, minute |-> 5, second |-> 15],
     three_stars |-> [day |-> 1, hour |-> 0, minute |-> 17, second |-> 45]]

\* Hour angles (tenths of a minute) of an ordinary spring day.
DayHourAngle(deg) ==
    CASE deg = DEG_SUNRISE -> 4000
      [] deg = DEG_FIRST_STARS -> 4250
      [] deg = DEG_THREE_STARS -> 4400
      [] deg = DEG_TALIT -> 4600
      [] deg = DEG_FIRST_LIGHT -> 4850

DaySkies ==
    { [eqtime |-> e, acos |-> [d \in Degrees |-> Solved(DayHourAngle(d))], astral |-> AstralDay] :
        e \in {3, 13} }

LoadTime == DateTime(5, 8, 0, 0)

----------------------------------------------------------------------------
(* Actions *)

\* A call Zmanim(date, location, candle_lighting_offset=.., havdalah_offset=..);
\* with passed = FALSE the date argument is left out and the default is used.
Construct(passed, date, location, candle_lighting_offset, havdalah_offset) ==
    LET arg == IF passed THEN date ELSE DEFAULT_DATE
        r == Zmanim__init__(arg, location, "hebrew",
                            candle_lighting_offset, havdalah_offset)
    IN  /\ history' = Append(history,
                        [passed |-> passed, date |-> arg, clock |-> now,
                         raised |-> r.raised, self |-> r.self,
                         instance |-> IF r.raised = "none" THEN Len(instances) + 1 ELSE 0])
        /\ instances' = IF r.raised = "none" THEN Append(instances, r.self) ELSE instances
        /\ UNCHANGED <<now, DEFAULT_DATE, _USE_ASTRAL, calendar, sky>>

\* One snapshot for a date and a local time of the sampled days.
Snapshot ==
    /\ instances = <<>>
    /\ \E d \in Dates, m \in SampleMinutes, clo \in CandleOffsets, hvo \in HavdalahOffsets :
          Construct(TRUE, [type |-> "datetime", value |-> DateTime(d, m \div 60, m % 60, 0)],
                    PetahTikva, clo, hvo)

Init ==
    /\ now = LoadTime
    /\ DEFAULT_DATE = [type |-> "datetime", value |-> LoadTime]
    /\ _USE_ASTRAL \in BOOLEAN
    /\ calendar \in Calendars
    /\ sky \in DaySkies
    /\ instances = <<>>
    /\ history = <<>>

Next == Snapshot

Spec == Init /\ [][Next]_vars

----------------------------------------------------------------------------
(* Properties of the day-transition evaluator (checked under Spec) *)

Snapshots == { instances[i] : i \in DOMAIN instances }

TodayIsRestDay(z) == IsRestDay(Today(z))

TomorrowIsRestDay(z) == IsRestDay(Tomorrow(z))

\* The instant (epoch seconds) of a marker of the snapshot's dictionary.
MarkerInstant(z, key) == z.date * 86400 + get_utc_sun_time_full(z).value[key]

\* The havdalah value as an instant: three_stars when the offset is 0,
\* sunset plus the offset otherwise.
HavdalahInstant(z) ==
    IF z.havdalah_offset = 0
    THEN MarkerInstant(z, "three_stars")
    ELSE MarkerInstant(z, "sunset") + 60 * z.havdalah_offset

\* Sunset minus the candle lighting offset, as an instant.
CandleOffsetInstant(z) == MarkerInstant(z, "sunset") - 60 * z.candle_lighting_offset

\* C1: issur_melacha_in_effect is true exactly when (1) today and tomorrow
\* are rest days, or (2) today is a rest day, havdalah is defined and the
\* instant is before it, or (3) tomorrow is a rest day, candle_lighting is
\* defined and the instant is at or after it; so it is false on a day with no
\* rest day today or tomorrow, false before candle lighting on the eve of a
\* rest day and false at and after havdalah on the last rest day.
C1_IssurMelacha ==
    \A z \in Snapshots :
        LET t == Epoch(z.time)
        IN  /\ issur_melacha_in_effect(z) <=>
                  \/ TodayIsRestDay(z) /\ TomorrowIsRestDay(z)
                  \/ /\ TodayIsRestDay(z)
                     /\ ~havdalah(z).none
                     /\ t < Epoch(havdalah(z).value)
                  \/ /\ TomorrowIsRestDay(z)
                     /\ ~candle_lighting(z).none
                     /\ t >= Epoch(candle_lighting(z).value)
            /\ (~TodayIsRestDay(z) /\ ~TomorrowIsRestDay(z)) => ~issur_melacha_in_effect(z)
            /\ (~TodayIsRestDay(z) /\ TomorrowIsRestDay(z)) =>
                  (issur_melacha_in_effect(z) <=> t >= CandleOffsetInstant(z))
            /\ (TodayIsRestDay(z) /\ ~TomorrowIsRestDay(z)) =>
                  (issur_melacha_in_effect(z) <=> t < HavdalahInstant(z))

\* Witness of C1: a snapshot of the last rest day taken exactly at havdalah,
\* where the prohibition is no longer in effect.
C1_Witness ==
    \E z \in Snapshots :
        /\ TodayIsRestDay(z) /\ ~TomorrowIsRestDay(z)
        /\ Epoch(z.time) = HavdalahInstant(z)
        /\ ~issur_melacha_in_effect(z)

\* C2: candle_lighting is the havdalah value when today and tomorrow are
\* rest days (Shabbat or Yom Tov), sunset minus the candle lighting offset
\* when only tomorrow is a rest day, and None otherwise.
C2_CandleLighting ==
    \A z \in Snapshots :
        IF TodayIsRestDay(z) /\ TomorrowIsRestDay(z)
        THEN /\ ~candle_lighting(z).none
             /\ Epoch(candle_lighting(z).value) = HavdalahInstant(z)
        ELSE IF TomorrowIsRestDay(z)
        THEN /\ ~candle_lighting(z).none
             /\ Epoch(candle_lighting(z).value) = CandleOffsetInstant(z)
        ELSE candle_lighting(z).none

\* C3: havdalah is defined exactly when today is a rest day and tomorrow is
\* not; when defined it is the havdalah value (three_stars for offset 0,
\* sunset plus the offset otherwise) in the location's zone, whatever the
\* snapshot's instant.
C3_Havdalah ==
    \A z \in Snapshots :
        /\ ~havdalah(z).none <=> (TodayIsRestDay(z) /\ ~TomorrowIsRestDay(z))
        /\ ~havdalah(z).none =>
              havdalah(z).value = FromEpoch(HavdalahInstant(z), z.location.timezone)
        /\ \A m \in SampleMinutes :
              havdalah([z EXCEPT !.time = FromEpoch(z.date * 86400 + 60 * m, 0)]) = havdalah(z)

\* Witness of C3: a snapshot inside a two-day rest stretch with no havdalah,
\* with a non-zero havdalah offset.
C3_Witness ==
    \E z \in Snapshots :
        /\ TodayIsRestDay(z) /\ TomorrowIsRestDay(z)
        /\ z.havdalah_offset # 0
        /\ havdalah(z).none

\* A second reachable case of C3: havdalah defined from three_stars.
C3_WitnessDefined ==
    \E z \in Snapshots :
        /\ TodayIsRestDay(z) /\ ~TomorrowIsRestDay(z)
        /\ z.havdalah_offset = 0
        /\ ~havdalah(z).none
        /\ Epoch(havdalah(z).value) = MarkerInstant(z, "three_stars")

\* C11: erev_shabbat_chag is true exactly when candle_lighting is defined,
\* today is not a rest day, tomorrow is a rest day and the instant is
\* strictly before candle_lighting; it is false at the instant of
\* candle_lighting and on every day that is itself a rest day.
C11_ErevShabbatChag ==
    \A z \in Snapshots :
        LET t == Epoch(z.time)
        IN  /\ erev_shabbat_chag(z) <=>
                  /\ ~candle_lighting(z).none
                  /\ ~TodayIsRestDay(z)
                  /\ TomorrowIsRestDay(z)
                  /\ t < Epoch(candle_lighting(z).value)
            /\ (~candle_lighting(z).none /\ t = Epoch(candle_lighting(z).value)) =>
                  ~erev_shabbat_chag(z)
            /\ TodayIsRestDay(z) => ~erev_shabbat_chag(z)
            /\ (~TodayIsRestDay(z) /\ TomorrowIsRestDay(z)) =>
                  (erev_shabbat_chag(z) <=> t < CandleOffsetInstant(z))

\* Witness of C11: a snapshot of the eve of a rest day taken exactly at
\* candle lighting, where it is no longer erev.
C11_Witness ==
    \E z \in Snapshots :
        /\ ~TodayIsRestDay(z) /\ TomorrowIsRestDay(z)
        /\ Epoch(z.time) = CandleOffsetInstant(z)
        /\ ~candle_lighting(z).none
        /\ ~erev_shabbat_chag(z)

\* C12: motzei_shabbat_chag is true exactly when havdalah is defined, today
\* and tomorrow are not both rest days, today is a rest day and the instant
\* is strictly after havdalah; it is false at the instant of havdalah and on
\* every rest day that is followed by another rest day.
C12_MotzeiShabbatChag ==
    \A z \in Snapshots :
        LET t == Epoch(z.time)
        IN  /\ motzei_shabbat_chag(z) <=>
                  /\ ~havdalah(z).none
                  /\ ~(TodayIsRestDay(z) /\ TomorrowIsRestDay(z))
                  /\ TodayIsRestDay(z)
                  /\ t > Epoch(havdalah(z).value)
            /\ (~havdalah(z).none /\ t = Epoch(havdalah(z).value)) =>
                  ~motzei_shabbat_chag(z)
            /\ (TodayIsRestDay(z) /\ TomorrowIsRestDay(z)) => ~motzei_shabbat_chag(z)
            /\ (TodayIsRestDay(z) /\ ~TomorrowIsRestDay(z)) =>
                  (motzei_shabbat_chag(z) <=> t > HavdalahInstant(z))

\* Witness of C12: a snapshot of the last rest day taken exactly at havdalah,
\* where it is not yet motzei.
C12_Witness ==
    \E z \in Snapshots :
        /\ TodayIsRestDay(z) /\ ~TomorrowIsRestDay(z)
        /\ ~havdalah(z).none
        /\ Epoch(z.time) = Epoch(havdalah(z).value)
        /\ ~motzei_shabbat_chag(z)

\* C16: at every instant of a snapshot at most one of erev_shabbat_chag,
\* issur_melacha_in_effect and motzei_shabbat_chag is true; on the eve of a
\* rest day exactly one of erev_shabbat_chag and issur_melacha_in_effect is
\* true; on a day where neither today nor tomorrow is a rest day all three
\* are false.
C16_OneOfThree ==
    \A z \in Snapshots :
        /\ ~(erev_shabbat_chag(z) /\ issur_melacha_in_effect(z))
        /\ ~(erev_shabbat_chag(z) /\ motzei_shabbat_chag(z))
        /\ ~(issur_melacha_in_effect(z) /\ motzei_shabbat_chag(z))
        /\ (~TodayIsRestDay(z) /\ TomorrowIsRestDay(z)) =>
              (erev_shabbat_chag(z) <=> ~issur_melacha_in_effect(z))
        /\ (~TodayIsRestDay(z) /\ ~TomorrowIsRestDay(z)) =>
              /\ ~erev_shabbat_chag(z)
              /\ ~issur_melacha_in_effect(z)
              /\ ~motzei_shabbat_chag(z)

\* Witness of C16: the eve of a rest day after candle lighting, where only
\* issur_melacha_in_effect is true.
C16_Witness ==
    \E z \in Snapshots :
        /\ ~TodayIsRestDay(z) /\ TomorrowIsRestDay(z)
        /\ Epoch(z.time) > CandleOffsetInstant(z)
        /\ issur_melacha_in_effect(z)
        /\ ~erev_shabbat_chag(z) /\ ~motzei_shabbat_chag(z)

----------------------------------------------------------------------------
(* The solar scenario: one snapshot under a sky drawn from SunSkies *)

Min(a, b) == IF a < b THEN a ELSE b

\* Hour angles of the sunrise altitude, in tenths of a minute: very short
\* days, ordinary days and days close to the midnight sun.
SunHourAngles == { 5 * k : k \in 0 .. MaxShortSteps } \cup {3600, 4000, 7150, 7168, 7195, 7200}

\* eqtime in tenths of a minute (it stays within -14.3 .. 16.4 minutes).
EqTimes == {-143, 0, 7, 37, 164}

\* The twilight altitudes are crossed further from noon than sunrise and
\* sunset, or not at all.
TwilightAngle(sunrise_angle, twilight, deg) ==
    IF twilight
    THEN Solved(Min(NOON * 10, sunrise_angle.value + DayHourAngle(deg) - DayHourAngle(DEG_SUNRISE)))
    ELSE ValueError

SunSkies ==
    { [eqtime |-> e,
       acos |-> [d \in Degrees |-> IF d = DEG_SUNRISE THEN sr ELSE TwilightAngle(sr, tw, d)],
       astral |-> a] :
        e \in EqTimes,
        sr \in { Solved(h) : h \in SunHourAngles } \cup {ValueError},
        tw \in BOOLEAN,
        a \in {AstralDay, AstralWest} }

HighLatitude(lon) == [latitude |-> 72, longitude |-> lon, timezone |-> 0, diaspora |-> FALSE]

SunLocations == { HighLatitude(lon) : lon \in {-1800, -740, 0, 349, 1799, 1800} } \cup {PetahTikva}

\* Below the polar circles every altitude of the list is crossed and the day
\* lasts between 8 and 16 hours.
Plausible(location) ==
    Abs(location.latitude) <= MAX_LATITUDE_ASTRAL =>
        /\ \A d \in Degrees : sky.acos[d].ok
        /\ sky.acos[DEG_SUNRISE].value >= 2400
        /\ sky.acos[DEG_SUNRISE].value <= 4800

Observe ==
    /\ instances = <<>>
    /\ \E location \in SunLocations :
          Plausible(location) /\
          Construct(TRUE, [type |-> "date", value |-> Date(5)], location,
                    DEFAULT_CANDLE_LIGHTING_OFFSET, DEFAULT_HAVDALAH_OFFSET)

InitSun ==
    /\ now = LoadTime
    /\ DEFAULT_DATE = [type |-> "datetime", value |-> LoadTime]
    /\ _USE_ASTRAL \in BOOLEAN
    /\ calendar = PlainCalendar
    /\ sky \in SunSkies
    /\ instances = <<>>
    /\ history = <<>>

NextSun == Observe

SpecSun == InitSun /\ [][NextSun]_vars

\* The dictionary of a snapshot (the call does not raise in this scenario).
Zmanim(z) == get_utc_sun_time_full(z).value

\* Sunrise and sunset were both solved.
SunSolved(z) == SolverBranch(z) = "astral" \/ sky.acos[DEG_SUNRISE].ok

\* C4 as claimed: sun_hour is (sunset - sunrise) / 12 exactly, so that
\* 12 * sun_hour = sunset - sunrise.
C4_SunHourExact ==
    \A z \in Snapshots : 12 * Zmanim(z).sun_hour = Zmanim(z).sunset - Zmanim(z).sunrise

\* C4 as amended: sun_hour is the whole number of minutes
\* floor((sunset - sunrise) / 12): 12 * sun_hour <= sunset - sunrise <
\* 12 * (sun_hour + 1 minute).
C4_SunHourFloor ==
    \A z \in Snapshots :
        /\ Zmanim(z).sun_hour % 60 = 0
        /\ 12 * Zmanim(z).sun_hour <= Zmanim(z).sunset - Zmanim(z).sunrise
        /\ Zmanim(z).sunset - Zmanim(z).sunrise < 12 * (Zmanim(z).sun_hour + 60)

\* Witness of C4: a day whose length is no multiple of 12 minutes.
C4_Witness ==
    \E z \in Snapshots :
        /\ SunSolved(z)
        /\ 12 * Zmanim(z).sun_hour < Zmanim(z).sunset - Zmanim(z).sunrise

\* C5 as claimed: when sunrise and sunset are solved and sunrise < sunset,
\* sunrise < midday < sunset and sun_hour > 0, very short days included.
C5_StrictOrder ==
    \A z \in Snapshots :
        (SunSolved(z) /\ Zmanim(z).sunrise < Zmanim(z).sunset) =>
            /\ Zmanim(z).sunrise < Zmanim(z).midday
            /\ Zmanim(z).midday < Zmanim(z).sunset
            /\ Zmanim(z).sun_hour > 0

\* C5 as amended: when sunrise and sunset are solved and sunrise < sunset,
\* sunrise <= midday < sunset and sun_hour >= 0; sunrise < midday once the
\* day is at least 2 minutes long and sun_hour > 0 once it is at least 12
\* minutes long.
C5_Order ==
    \A z \in Snapshots :
        (SunSolved(z) /\ Zmanim(z).sunrise < Zmanim(z).sunset) =>
            /\ Zmanim(z).sunrise <= Zmanim(z).midday
            /\ Zmanim(z).midday < Zmanim(z).sunset
            /\ Zmanim(z).sun_hour >= 0
            /\ (Zmanim(z).sunset - Zmanim(z).sunrise >= 2 * 60) =>
                  Zmanim(z).sunrise < Zmanim(z).midday
            /\ (Zmanim(z).sunset - Zmanim(z).sunrise >= 12 * 60) <=>
                  Zmanim(z).sun_hour > 0

\* Witness of C5: a solved day of one minute, where midday is sunrise and
\* sun_hour is 0.
C5_Witness ==
    \E z \in Snapshots :
        /\ SunSolved(z)
        /\ Zmanim(z).sunset - Zmanim(z).sunrise = 60
        /\ Zmanim(z).midday = Zmanim(z).sunrise
        /\ Zmanim(z).sun_hour = 0

\* C8: when the low accuracy solver finds no crossing both values are the
\* degenerate marker, and no solvable input gives the marker as a rising or
\* setting time.
C8_DegenerateDistinct ==
    \A z \in Snapshots : \A deg \in Degrees :
        IF sky.acos[deg].ok
        THEN /\ _get_utc_sun_time_deg(z, deg)[1] # DEGENERATE
             /\ _get_utc_sun_time_deg(z, deg)[2] # DEGENERATE
        ELSE _get_utc_sun_time_deg(z, deg) = <<DEGENERATE, DEGENERATE>>

\* The six markers the solver of the snapshot's branch answers, in minutes:
\* <<sunrise, sunset, first_light, talit, first_stars, three_stars>>.
SolverMarkers(z) ==
    IF SolverBranch(z) = "deg"
    THEN <<_get_utc_sun_time_deg(z, DEG_SUNRISE)[1],
           _get_utc_sun_time_deg(z, DEG_SUNRISE)[2],
           _get_utc_sun_time_deg(z, DEG_FIRST_LIGHT)[1],
           _get_utc_sun_time_deg(z, DEG_TALIT)[1],
           _get_utc_sun_time_deg(z, DEG_FIRST_STARS)[2],
           _get_utc_sun_time_deg(z, DEG_THREE_STARS)[2]>>
    ELSE <<_datetime_to_minutes_offest(z, z.astral_sun.sunrise),
           _datetime_to_minutes_offest(z, z.astral_sun.sunset),
           _get_utc_time_of_transit(z, "first_light"),
           _get_utc_time_of_transit(z, "talit"),
           _get_utc_time_of_transit(z, "first_stars"),
           _get_utc_time_of_transit(z, "three_stars")>>

\* Every altitude of the list was solved.
AllSolved(z) == SolverBranch(z) = "astral" \/ \A d \in Degrees : sky.acos[d].ok

\* C13: with the markers solved, every derived zman of the dictionary is its
\* fixed formula over the dictionary's own sun_hour and midday and
\* mga_hour = (midday - first_light) / 6, and the six markers are the
\* solver's answers unchanged. (Values in seconds; the fractions of the
\* formulas are cleared.)
C13_FixedFormulas ==
    \A z \in Snapshots :
        AllSolved(z) =>
            LET d == Zmanim(z)
                m == SolverMarkers(z)
            IN  /\ 4 * (d.sunset - d.plag_mincha) = 5 * d.sun_hour
                /\ 60 * (d.stars_out - d.sunset) = 18 * d.sun_hour
                /\ 2 * (d.small_mincha - d.sunrise) = 19 * d.sun_hour
                /\ 2 * (d.big_mincha - d.sunrise) = 13 * d.sun_hour
                /\ d.big_mincha_30 = d.midday + 30 * 60
                /\ 6 * (d.mga_end_shma - d.first_light) = 3 * (d.midday - d.first_light)
                /\ d.gra_end_shma = d.sunrise + 3 * d.sun_hour
                /\ 6 * (d.mga_end_tfila - d.first_light) = 4 * (d.midday - d.first_light)
                /\ d.gra_end_tfila = d.sunrise + 4 * d.sun_hour
                /\ 5 * (d.rabbeinu_tam - d.sunset) = 6 * d.sun_hour
                /\ d.midnight = d.midday + NOON * 60
                /\ <<d.sunrise, d.sunset, d.first_light, d.talit, d.first_stars, d.three_stars>>
                      = [i \in 1 .. 6 |-> 60 * m[i]]

\* Witness of C13: a solved day whose plag_mincha and mga_end_shma are no
\* whole minutes.
C13_Witness ==
    \E z \in Snapshots :
        /\ AllSolved(z)
        /\ Zmanim(z).sunrise < Zmanim(z).sunset
        /\ Zmanim(z).plag_mincha % 60 # 0
        /\ Zmanim(z).mga_end_shma % 60 # 0

\* The altitudes a named zman is computed from (lines 354-358 and 367-392).
AltitudesOf(key) ==
    CASE key = "first_light" -> {DEG_FIRST_LIGHT}
      [] key = "talit" -> {DEG_TALIT}
      [] key = "first_stars" -> {DEG_FIRST_STARS}
      [] key = "three_stars" -> {DEG_THREE_STARS}
      [] key \in {"mga_end_shma", "mga_end_tfila"} -> {DEG_SUNRISE, DEG_FIRST_LIGHT}
      [] OTHER -> {DEG_SUNRISE}

\* The low accuracy solver found no crossing of an altitude that the zman
\* `key` of snapshot z is computed from.
Unsolvable(z, key) ==
    /\ SolverBranch(z) = "deg"
    /\ \E deg \in AltitudesOf(key) : ~sky.acos[deg].ok

\* The values a caller takes for a time: a number of minutes (here in
\* seconds), a datetime.
IsNumericTime(v) == v \in Int

IsDateTime(t) ==
    t \in [date : Int, hour : 0 .. 23, minute : 0 .. 59, second : 0 .. 59,
           aware : BOOLEAN, utcoffset : Int]

\* C14: when the solver cannot solve a marker, every named zman computed
\* from it is reported as undefined: get_utc_sun_time_full raises or holds
\* no number for it, and utc_zmanim and zmanim hold no datetime for it.
C14_UndefinedExplicit ==
    \A z \in Snapshots : \A key \in DOMAIN NoZmanim :
        Unsolvable(z, key) =>
            \/ get_utc_sun_time_full(z).raised # "none"
            \/ /\ ~IsNumericTime(get_utc_sun_time_full(z).value[key])
               /\ ~IsDateTime(utc_zmanim(z, key))
               /\ ~IsDateTime(zmanim(z, key))

\* What the code reports instead: with first_light unsolvable and sunrise
\* and sunset solved, first_light is 12 hours before the day's 00:00 UTC and
\* mga_end_shma is an ordinary looking time between it and midday.
C14_Reported ==
    \E z \in Snapshots :
        /\ Unsolvable(z, "first_light") /\ ~Unsolvable(z, "sunrise")
        /\ Zmanim(z).first_light = 60 * DEGENERATE
        /\ utc_zmanim(z, "first_light") = ReplaceTz(DateTime(z.date - 1, 12, 0, 0), 0)
        /\ 2 * Zmanim(z).mga_end_shma = Zmanim(z).first_light + Zmanim(z).midday

----------------------------------------------------------------------------
(* The construction scenario: calls of Zmanim(...) while the clock runs *)

\* The date arguments: left out, a date, an aware datetime (in a zone that is
\* not the location's), a str.
CtorArgs ==
    { [passed |-> FALSE, date |-> [type |-> "NoneType", value |-> Date(0)]],
      [passed |-> TRUE, date |-> [type |-> "date", value |-> Date(6)]],
      [passed |-> TRUE, date |-> [type |-> "datetime",
                                  value |-> ReplaceTz(DateTime(6, 20, 30, 0), 7200)]],
      [passed |-> TRUE, date |-> [type |-> "str", value |-> Date(0)]] }

AtLatitude(lat) == [latitude |-> lat, longitude |-> -740, timezone |-> -18000, diaspora |-> TRUE]

\* One latitude beyond astral's range (south) and the last one inside it.
CtorLocations == { AtLatitude(lat) : lat \in {-(MAX_LATITUDE_ASTRAL + 1), MAX_LATITUDE_ASTRAL} }

\* The system clock advances by a minute.
Tick ==
    /\ Epoch(now) < Epoch(LoadTime) + 60 * MaxTicks
    /\ now' = ReplaceTzNone(PlusSeconds(now, 60))
    /\ UNCHANGED <<DEFAULT_DATE, _USE_ASTRAL, calendar, sky, instances, history>>

New ==
    /\ Len(history) < MaxCalls
    /\ \E arg \in CtorArgs, location \in CtorLocations :
          Construct(arg.passed, arg.date, location,
                    DEFAULT_CANDLE_LIGHTING_OFFSET, DEFAULT_HAVDALAH_OFFSET)

\* zman.location = location: the attribute of an instance is assigned.
SetLocation ==
    \E i \in DOMAIN instances, location \in CtorLocations :
        /\ location # instances[i].location
        /\ instances' = [instances EXCEPT ![i].location = location]
        /\ UNCHANGED <<now, DEFAULT_DATE, _USE_ASTRAL, calendar, sky, history>>

InitCtor ==
    /\ now = LoadTime
    /\ DEFAULT_DATE = [type |-> "datetime", value |-> LoadTime]
    /\ _USE_ASTRAL \in BOOLEAN
    /\ calendar = PlainCalendar
    /\ sky \in { d \in DaySkies : d.eqtime = 3 }
    /\ instances = <<>>
    /\ history = <<>>

NextCtor == Tick \/ New \/ SetLocation

SpecCtor == InitCtor /\ [][NextCtor]_vars

Calls == { history[i] : i \in DOMAIN history }

\* The UTC instant of the wall clock fields of t read in the zone of location.
WallInstant(t, location) ==
    ((t.date * 24 + t.hour) * 60 + t.minute) * 60 + t.second - location.timezone

\* C6: a zone-aware datetime gives the date and the UTC reference instant of
\* the naive datetime with the same wall clock fields (and so the same
\* issur_melacha_in_effect, erev and motzei results): the tzinfo passed in is
\* dropped and the fields are read in the location's zone. For a date the
\* date is used as given and the time is the clock's at construction.
C6_AwareAsNaive ==
    \A c \in Calls :
        /\ (c.passed /\ c.date.type = "datetime") =>
              LET naive == Zmanim__init__([type |-> "datetime",
                                           value |-> ReplaceTzNone(c.date.value)],
                                          c.self.location, c.self.language,
                                          c.self.candle_lighting_offset,
                                          c.self.havdalah_offset).self
              IN  /\ c.raised = "none"
                  /\ c.self.date = c.date.value.date
                  /\ c.self.time.aware /\ c.self.time.utcoffset = 0
                  /\ Epoch(c.self.time) = WallInstant(c.date.value, c.self.location)
                  /\ c.self.date = naive.date
                  /\ c.self.time = naive.time
                  /\ issur_melacha_in_effect(c.self) = issur_melacha_in_effect(naive)
                  /\ erev_shabbat_chag(c.self) = erev_shabbat_chag(naive)
                  /\ motzei_shabbat_chag(c.self) = motzei_shabbat_chag(naive)
        /\ (c.passed /\ c.date.type = "date") =>
              /\ c.raised = "none"
              /\ c.self.date = c.date.value.date
              /\ Epoch(c.self.time) = WallInstant(c.clock, c.self.location)

\* Witness of C6: an instance built from a datetime aware in a zone that is
\* not the location's.
C6_Witness ==
    \E c \in Calls :
        /\ c.passed /\ c.date.type = "datetime" /\ c.raised = "none"
        /\ c.date.value.aware
        /\ c.date.value.utcoffset # c.self.location.timezone
        /\ Epoch(c.self.time) # Epoch(c.date.value)

\* C7: a date argument that is neither a date nor a datetime (a str too)
\* raises TypeError before the time is normalized or a solver is selected,
\* and gives no instance; a date or a datetime never raises it.
C7_TypeError ==
    /\ \A c \in Calls :
          IF c.date.type \in {"date", "datetime"}
          THEN c.raised = "none" /\ c.instance \in DOMAIN instances
          ELSE /\ c.raised = "TypeError"
               /\ c.instance = 0
               /\ ~c.self.has_date /\ ~c.self.has_time /\ ~c.self.has_astral
    /\ Len(instances) = Cardinality({ i \in DOMAIN history : history[i].date.type \in {"date", "datetime"} })

\* Witness of C7: a call with a str after which there is still no instance.
C7_Witness ==
    /\ \E c \in Calls : c.date.type = "str" /\ c.raised = "TypeError"
    /\ instances = <<>>

\* The solver chosen when call c constructed its instance.
ChosenAtConstruction(c) == IF c.self.has_astral THEN "astral" ELSE "deg"

\* C9: the solver is chosen once, at construction (the precise one exactly
\* when astral is available and |latitude| <= 50), and every later call of
\* get_utc_sun_time_full on the instance uses that choice, whatever happens
\* to the location's latitude; the precise branch is never entered on an
\* instance without astral data.
C9_SolverChosenOnce ==
    \A c \in Calls :
        c.raised = "none" =>
            /\ c.self.has_astral <=>
                  (_USE_ASTRAL /\ Abs(c.self.location.latitude) <= MAX_LATITUDE_ASTRAL)
            /\ get_utc_sun_time_full(instances[c.instance]).branch = ChosenAtConstruction(c)
            /\ get_utc_sun_time_full(instances[c.instance]).raised = "none"

\* C10: the current time default is taken afresh by every construction: an
\* instance built from a date, or with no date argument, has the clock time
\* of its own construction as its reference instant.
C10_FreshNow ==
    \A c \in Calls :
        (c.raised = "none" /\ (~c.passed \/ c.date.type = "date")) =>
            Epoch(c.self.time) = WallInstant(c.clock, c.self.location)

----------------------------------------------------------------------------
(* The walk scenario: the clock advances through the sampled instants of   *)
(* consecutive days, and each instant is evaluated on a snapshot built for *)
(* it (Zmanim(date=datetime.now(), location=...), as a caller polling      *)
(* issur_melacha_in_effect does).                                          *)

Helsinki == [latitude |-> 60, longitude |-> 249, timezone |-> 10800, diaspora |-> TRUE]

\* Helsinki at the end of June: sunrise, sunset and first_stars are solved
\* (hour angles 568.2 and 681.1 minutes), math.acos raises for 98.5, 101.0
\* and 106.1 degrees.
WhiteNightSky ==
    [eqtime |-> -17,
     acos |-> [d \in Degrees |->
                 CASE d = DEG_SUNRISE -> Solved(5682)
                   [] d = DEG_FIRST_STARS -> Solved(6811)
                   [] OTHER -> ValueError],
     astral |-> AstralDay]

\* Where the walk takes place and what the sky is like there.
WalkScenes ==
    { [location |-> PetahTikva, sky |-> d] : d \in DaySkies }
        \cup { [location |-> Helsinki, sky |-> WhiteNightSky] }

WalkOffsets ==
    { [candle_lighting_offset |-> DEFAULT_CANDLE_LIGHTING_OFFSET,
       havdalah_offset |-> DEFAULT_HAVDALAH_OFFSET],
      [candle_lighting_offset |-> 20, havdalah_offset |-> 42] }

\* The snapshot Zmanim(datetime(d, minute), location, offsets) of a walk at
\* `location` with the offsets of `like`.
SnapshotAt(d, minute, like) ==
    Zmanim__init__([type |-> "datetime",
                    value |-> DateTime(d, minute \div 60, minute % 60, 0)],
                   like.location, like.language,
                   like.candle_lighting_offset, like.havdalah_offset).self

\* The local minute of day d of an instant (epoch seconds).
LocalMinute(instant, d, like) == (instant + like.location.timezone - d * 86400) \div 60

\* The local minutes of day d the walk stops at: midnight, the morning, the
\* last minute, and the minutes around sunset minus the candle lighting
\* offset and around the havdalah value of the day.
WalkMinutes(d, like) ==
    LET z == SnapshotAt(d, 0, like)
        centres == {LocalMinute(CandleOffsetInstant(z), d, like),
                    LocalMinute(HavdalahInstant(z), d, like)}
    IN  {0, MorningMinute, 1439}
            \cup ({ c + r : c \in centres, r \in (-Radius) .. Radius } \cap (0 .. 1439))

\* The clock reaches the next stop: later the same day, or midnight of the
\* next day.
Advance ==
    /\ history # <<>>
    /\ history[Len(history)].clock = now
    /\ LET like == instances[1]
           minute == now.hour * 60 + now.minute
           later == { m \in WalkMinutes(now.date, like) : m > minute }
       IN  IF later # {}
           THEN \E m \in later :
                    /\ \A n \in later : m <= n
                    /\ now' = DateTime(now.date, m \div 60, m % 60, 0)
           ELSE /\ now.date + 1 \in Dates
                /\ now' = DateTime(now.date + 1, 0, 0, 0)
    /\ UNCHANGED <<DEFAULT_DATE, _USE_ASTRAL, calendar, sky, instances, history>>

\* Zmanim(date=dt.datetime.now(), location=..., ...): a snapshot for the
\* instant the clock shows.
Look ==
    /\ history # <<>>
    /\ history[Len(history)].clock # now
    /\ Construct(TRUE, [type |-> "datetime", value |-> now], instances[1].location,
                 instances[1].candle_lighting_offset, instances[1].havdalah_offset)

WalkStart == DateTime(5, 0, 0, 0)

InitWalk ==
    /\ now = WalkStart
    /\ DEFAULT_DATE = [type |-> "datetime", value |-> LoadTime]
    /\ _USE_ASTRAL \in BOOLEAN
    /\ calendar \in Calendars
    /\ \E scene \in WalkScenes, o \in WalkOffsets :
          /\ sky = scene.sky
          /\ LET date == [type |-> "datetime", value |-> WalkStart]
                 r == Zmanim__init__(date, scene.location, "hebrew",
                                     o.candle_lighting_offset, o.havdalah_offset)
             IN  /\ instances = <<r.self>>
                 /\ history = <<[passed |-> TRUE, date |-> date, clock |-> WalkStart,
                                 raised |-> r.raised, self |-> r.self, instance |-> 1]>>

NextWalk == Advance \/ Look

SpecWalk == InitWalk /\ [][NextWalk]_vars

\* The rest stretches of the calendar that are known from end to end:
\* <<D, E>> with D not a rest day, D + 1 .. E rest days and E + 1 not one.
Stretches ==
    { s \in CalendarDays \X CalendarDays :
        /\ s[1] < s[2]
        /\ ~IsRestDay(calendar[s[1]])
        /\ \A e \in (s[1] + 1) .. s[2] : IsRestDay(calendar[e])
        /\ s[2] + 1 \in CalendarDays
        /\ ~IsRestDay(calendar[s[2] + 1]) }

\* Day d is an ordinary day or a day of a stretch known from end to end.
InKnownStretch(d) ==
    (IsRestDay(calendar[d]) \/ IsRestDay(calendar[d + 1])) =>
        \E s \in Stretches : s[1] <= d /\ d <= s[2]

\* candle_lighting of the snapshot of day D and havdalah of the snapshot of
\* day E of the walk, as instants.
CandleLightingOf(D, like) == Epoch(candle_lighting(SnapshotAt(D, 0, like)).value)

HavdalahOf(E, like) == Epoch(havdalah(SnapshotAt(E, 0, like)).value)

\* The newest snapshot of the walk (every snapshot is the newest one in the
\* state where it was taken).
Newest == instances[Len(instances)]

\* C15: along the walk issur_melacha_in_effect is true exactly from
\* candle_lighting of the eve D of a rest stretch D + 1 .. D + k up to, not
\* including, havdalah of its last day D + k, across every midnight in
\* between; it is false before and after, and once false on day D + k it
\* stays false that day.
C15_NeverLiftsInStretch ==
    /\ InKnownStretch(Newest.date) =>
          (issur_melacha_in_effect(Newest) <=>
              \E s \in Stretches :
                  /\ CandleLightingOf(s[1], Newest) <= Epoch(Newest.time)
                  /\ Epoch(Newest.time) < HavdalahOf(s[2], Newest))
    /\ \A i \in DOMAIN instances :
          (/\ instances[i].date = Newest.date
           /\ \E s \in Stretches : s[2] = Newest.date
           /\ ~issur_melacha_in_effect(instances[i])) =>
              ~issur_melacha_in_effect(Newest)

\* What the code reports instead at Helsinki in June: the prohibition is in
\* effect on Friday night and no longer on Shabbat morning.
C15_LiftedOnShabbat ==
    \E i, j \in DOMAIN instances :
        /\ i < j
        /\ instances[j].date = instances[i].date + 1
        /\ ~IsRestDay(calendar[instances[i].date])
        /\ IsRestDay(calendar[instances[j].date])
        /\ issur_melacha_in_effect(instances[i])
        /\ instances[j].time.hour < 12
        /\ ~issur_melacha_in_effect(instances[j])

\* With three_stars solved the walk has the claimed shape.
C15_WhenSolved == sky.acos[DEG_THREE_STARS].ok => C15_NeverLiftsInStretch

\* A walk with three_stars solved that went through a whole stretch of two
\* rest days and saw the prohibition end at havdalah.
C15_SolvedWalk ==
    /\ sky.acos[DEG_THREE_STARS].ok
    /\ \E s \in Stretches :
          /\ s[2] = s[1] + 2
          /\ \E i, j \in DOMAIN instances :
                /\ instances[i].date = s[1] + 1 /\ issur_melacha_in_effect(instances[i])
                /\ instances[j].date = s[2]
                /\ Epoch(instances[j].time) = HavdalahOf(s[2], instances[j])
                /\ ~issur_melacha_in_effect(instances[j])

====
